---- MODULE Spec2Model ----
(***************************************************************************)
(* Model of the ETL pipeline of etl-analisis-ingresos-impuestos-ajuste-    *)
(* inflacion: the monetary-cell normalizer limpiar_celda_dinero_auditado,  *)
(* the fiscal decomposition calcular_impuestos (src/src/transformation.py) *)
(* and the per-row path of main() from the melted row to the fact table    *)
(* handed to cargar_datos_postgreSQL (src/main.py, src/src/loading.py).    *)
(*                                                                         *)
(* A text is a sequence of one-character strings.  A Python float is       *)
(* modelled by an exact decimal [m |-> mantissa, e |-> fractional digits], *)
(* value m * 10^-e, kept canonical (no trailing fractional zero), so that  *)
(* equality of records is equality of values.  Binary rounding of floats   *)
(* is not modelled.                                                        *)
(***************************************************************************)
EXTENDS Integers, Sequences, FiniteSets, TLC

(***************************************************************************)
(* Characters                                                              *)
(***************************************************************************)
CifrasSeq == <<"0", "1", "2", "3", "4", "5", "6", "7", "8", "9">>
Digitos == {CifrasSeq[i] : i \in 1..10}
Mayusculas == <<"A", "B", "C", "D", "E", "F", "G", "H", "I", "J", "K", "L", "M",
                "N", "O", "P", "Q", "R", "S", "T", "U", "V", "W", "X", "Y", "Z">>
Minusculas == <<"a", "b", "c", "d", "e", "f", "g", "h", "i", "j", "k", "l", "m",
                "n", "o", "p", "q", "r", "s", "t", "u", "v", "w", "x", "y", "z">>
\* the character class [a-zA-Z]
LetrasAscii == {Mayusculas[i] : i \in 1..Len(Mayusculas)} \cup {Minusculas[i] : i \in 1..Len(Minusculas)}
\* letters outside [a-zA-Z] (str.isalpha() is true of them): "n~" stands for
\* the one character n with tilde (U+00F1)
LetrasNoAscii == {"n~"}
\* whitespace: what str.strip() strips and \s matches
Espacios == {" ", "\t", "\n"}
\* the character class [\d.,]
CifrasYPuntuacion == Digitos \cup {".", ","}

Minimo(S) == CHOOSE x \in S : \A y \in S : x <= y
Maximo(S) == CHOOSE x \in S : \A y \in S : x >= y

DigitVal(c) == (CHOOSE i \in 1..10 : CifrasSeq[i] = c) - 1

\* str.lower() of one character
Lower(c) == IF \E i \in 1..Len(Mayusculas) : Mayusculas[i] = c
            THEN Minusculas[CHOOSE i \in 1..Len(Mayusculas) : Mayusculas[i] = c]
            ELSE c
LowerStr(s) == [i \in 1..Len(s) |-> Lower(s[i])]

\* str.strip()
Strip(s) == LET idx == {i \in 1..Len(s) : s[i] \notin Espacios}
            IN  IF idx = {} THEN <<>> ELSE SubSeq(s, Minimo(idx), Maximo(idx))

\* does w occur in s at position i
StartsWith(s, i, w) == /\ i >= 1
                       /\ i + Len(w) - 1 <= Len(s)
                       /\ SubSeq(s, i, i + Len(w) - 1) = w

\* str.replace(old, new) for single characters
ReplaceChar(s, old, new) == [i \in 1..Len(s) |-> IF s[i] = old THEN new ELSE s[i]]
\* str.replace(c, '')
RECURSIVE RemoveChar(_, _)
RemoveChar(s, c) == IF s = <<>> THEN <<>>
                    ELSE IF Head(s) = c THEN RemoveChar(Tail(s), c)
                    ELSE <<Head(s)>> \o RemoveChar(Tail(s), c)

\* str.replace(sub, "", 1): the first occurrence of sub is removed
ReplaceFirst(s, sub) ==
    LET occ == {i \in 1..Len(s) : StartsWith(s, i, sub)}
    IN  IF sub = <<>> \/ occ = {} THEN s
        ELSE LET i == Minimo(occ)
             IN  SubSeq(s, 1, i - 1) \o SubSeq(s, i + Len(sub), Len(s))

\* first position >= i of s that is not in class C (Len(s)+1 when none)
FinCorrida(s, i, C) == Minimo({j \in i..(Len(s) + 1) : j = Len(s) + 1 \/ s[j] \notin C})

(***************************************************************************)
(* Decimal numbers (the model of float)                                    *)
(***************************************************************************)
RECURSIVE Pow10(_)
Pow10(n) == IF n = 0 THEN 1 ELSE 10 * Pow10(n - 1)

RECURSIVE Canon(_)
Canon(d) == IF d.e > 0 /\ d.m % 10 = 0 THEN Canon([m |-> d.m \div 10, e |-> d.e - 1]) ELSE d

Cero == [m |-> 0, e |-> 0]
Entero(n) == [m |-> n, e |-> 0]

\* a + b
Suma(a, b) == LET e == IF a.e >= b.e THEN a.e ELSE b.e
              IN  Canon([m |-> a.m * Pow10(e - a.e) + b.m * Pow10(e - b.e), e |-> e])
\* a * n, n an integer
PorEntero(a, n) == Canon([m |-> a.m * n, e |-> a.e])
\* lo < a < hi for integers lo, hi
EntreEstricto(a, lo, hi) == LET p == Pow10(a.e)
                                piso == a.m \div p
                                frac == a.m % p
                            IN  /\ (piso > lo \/ (piso = lo /\ frac > 0))
                                /\ piso < hi

RECURSIVE DigitsToInt(_)
DigitsToInt(ds) == IF ds = <<>> THEN 0
                   ELSE DigitsToInt(SubSeq(ds, 1, Len(ds) - 1)) * 10 + DigitVal(ds[Len(ds)])

\* float(s) for a text of digits and '.': ok is FALSE where float() raises ValueError
ParseFloat(s) ==
    LET puntos == {i \in 1..Len(s) : s[i] = "."}
        cifras == RemoveChar(s, ".")
    IN  IF Cardinality(puntos) <= 1 /\ cifras # <<>> /\ \A i \in 1..Len(cifras) : cifras[i] \in Digitos
        THEN [ok |-> TRUE,
              val |-> Canon([m |-> DigitsToInt(cifras),
                             e |-> IF puntos = {} THEN 0 ELSE Len(s) - Minimo(puntos)])]
        ELSE [ok |-> FALSE, val |-> Cero]

RECURSIVE IntToDigits(_)
IntToDigits(n) == IF n < 10 THEN <<CifrasSeq[n + 1]>>
                  ELSE IntToDigits(n \div 10) \o <<CifrasSeq[(n % 10) + 1]>>

RECURSIVE Ceros(_)
Ceros(n) == IF n <= 0 THEN <<>> ELSE <<"0">> \o Ceros(n - 1)

\* str(x) of a non-negative float in fixed notation: "150.0", "0.5", "12.25"
StrFloat(d) == LET p == Pow10(d.e)
                   frac == IntToDigits(d.m % p)
               IN  IntToDigits(d.m \div p) \o <<".">> \o
                   (IF d.e = 0 THEN <<"0">> ELSE Ceros(d.e - Len(frac)) \o frac)

(***************************************************************************)
(* limpiar_celda_dinero_auditado: the pieces of the parse                  *)
(***************************************************************************)
\* the alternation (?:u\$|usd|us|dolar), in the order the regex tries it
MarcasUsd == << <<"u", "$">>, <<"u", "s", "d">>, <<"u", "s">>, <<"d", "o", "l", "a", "r">> >>
\* the alternation (?:u\$|usd|us|dolar|\$)
MarcasMoneda == MarcasUsd \o << <<"$">> >>

\* length of the first alternative of marcas that matches s at i, 0 when none does
MarcaEn(s, i, marcas) ==
    LET ok == {k \in 1..Len(marcas) : StartsWith(s, i, marcas[k])}
    IN  IF ok = {} THEN 0 ELSE Len(marcas[Minimo(ok)])

\* the match of patron_usd = (\d+[.,]?\d*)\s*(?:u\$|usd|us|dolar) starting at i.
\* The character after group 1 is whitespace or the first letter of a marker,
\* so group 1 is the whole run of [\d.,] from i, and it matches \d+[.,]?\d*
\* exactly when it starts with a digit and holds at most one separator.
MatchUsdEn(s, i) ==
    LET e == FinCorrida(s, i, CifrasYPuntuacion)
        num == SubSeq(s, i, e - 1)
        seps == {k \in 1..Len(num) : num[k] \in {".", ","}}
        w == FinCorrida(s, e, Espacios)
        l == MarcaEn(s, w, MarcasUsd)
    IN  IF i <= Len(s) /\ s[i] \in Digitos /\ Cardinality(seps) <= 1 /\ l > 0
        THEN [ok |-> TRUE, ini |-> i, fin_num |-> e, fin |-> w + l]
        ELSE [ok |-> FALSE, ini |-> i, fin_num |-> i, fin |-> i]

\* the non-overlapping matches of patron_usd in s from position p on, left to right
RECURSIVE BuscarUsd(_, _)
BuscarUsd(s, p) ==
    IF p > Len(s) THEN <<>>
    ELSE LET m == MatchUsdEn(s, p)
         IN  IF m.ok THEN <<m>> \o BuscarUsd(s, m.fin) ELSE BuscarUsd(s, p + 1)

\* re.findall(patron_usd, texto): group 1 of every match
FindallUsd(s) == LET ms == BuscarUsd(s, 1)
                 IN  [k \in 1..Len(ms) |-> SubSeq(s, ms[k].ini, ms[k].fin_num - 1)]

\* bool(re.search(r'[a-zA-Z]', texto))
TieneLetras(s) == \E i \in 1..Len(s) : s[i] \in LetrasAscii

\* re.sub(r'(?:u\$|usd|us|dolar|\$)', '', texto)
RECURSIVE QuitarMarcas(_, _)
QuitarMarcas(s, p) ==
    IF p > Len(s) THEN <<>>
    ELSE LET l == MarcaEn(s, p, MarcasMoneda)
         IN  IF l > 0 THEN QuitarMarcas(s, p + l) ELSE <<s[p]>> \o QuitarMarcas(s, p + 1)

\* re.findall(r'[\d.,]+', texto_limpio): the maximal runs of digits, dots and commas
RECURSIVE FindallNumeros(_, _)
FindallNumeros(s, p) ==
    IF p > Len(s) THEN <<>>
    ELSE IF s[p] \in CifrasYPuntuacion
         THEN LET e == FinCorrida(s, p, CifrasYPuntuacion)
              IN  <<SubSeq(s, p, e - 1)>> \o FindallNumeros(s, e)
         ELSE FindallNumeros(s, p + 1)

\* a rate of the row: a number (an integer here) or NaN, the left merge's missing value
NaN == [nan |-> TRUE, v |-> 0]
Tasa(n) == [nan |-> FALSE, v |-> n]

\* if pd.isna(cotizacion): cotizacion = 0.0
CotizacionEfectiva(c) == IF c.nan THEN 0 ELSE c.v

\* str(valor).lower().strip()
Canonico(valor) == Strip(LowerStr(IF valor.tipo = "float" THEN StrFloat(valor.num) ELSE valor.txt))

\* not texto or texto == 'nan'
EsVacioSinNone(t) == t = <<>> \/ t = <<"n", "a", "n">>
\* not texto or texto in ['nan', 'none']
EsVacio(t) == t = <<>> \/ t \in {<<"n", "a", "n">>, <<"n", "o", "n", "e">>}

\* cotizacion != 0
CotizacionNoNula(cot) == cot # 0
\* cotizacion > 0
CotizacionUsable(cot) == cot > 0

\* one iteration of the dollar loop: the converted amount is added when the
\* rate is usable and the first occurrence of the numeral leaves the text.
\* lanza: an exception leaves the iteration (never: except Exception: pass)
ConvertirUsd(total, t, monto_str, cot) ==
    LET monto_clean == ReplaceChar(monto_str, ",", ".")
        f == ParseFloat(monto_clean)
    IN  IF ~f.ok THEN [total |-> total, texto |-> t, lanza |-> FALSE]
        ELSE [total |-> IF CotizacionUsable(cot) THEN Suma(total, PorEntero(f.val, cot)) ELSE total,
              texto |-> ReplaceFirst(t, monto_str), lanza |-> FALSE]

\* num_str.replace('.', '').replace(',', '.')
NClean(num_str) == ReplaceChar(RemoveChar(num_str, "."), ",", ".")

\* n_clean in ['', '.', ','] -> continue; float(n_clean) raising -> continue
ValorPesos(num_str) ==
    LET n == NClean(num_str)
    IN  IF n \in {<<>>, <<".">>, <<",">>} THEN [ok |-> FALSE, val |-> Cero] ELSE ParseFloat(n)

\* 2020 <= val <= 2030 and len(posibles_numeros) == 1
EsPosibleFechaInclusiva(val, n_candidatos) ==
    (EntreEstricto(val, 2019, 2030) \/ val = Entero(2030)) /\ n_candidatos = 1
\* 2020 < val < 2030 and len(posibles_numeros) == 1
EsPosibleFecha(val, n_candidatos) == EntreEstricto(val, 2020, 2030) /\ n_candidatos = 1

\* the peso iteration without its try/except: ValueError leaves the function
SumarPesosSinExcept(total, ns, num_str, n_candidatos) ==
    LET v == ValorPesos(num_str)
    IN  IF ~v.ok THEN [total |-> total, notas |-> ns,
                       lanza |-> NClean(num_str) \notin {<<>>, <<".">>, <<",">>}]
        ELSE IF EsPosibleFecha(v.val, n_candidatos)
             THEN [total |-> total, notas |-> Append(ns, "POSIBLE_FECHA_IGNORADA"), lanza |-> FALSE]
             ELSE [total |-> Suma(total, v.val), notas |-> ns, lanza |-> FALSE]

\* the peso iteration with the date tag put at the head of the trail: notas.insert(0, ...)
SumarPesosFechaAlFrente(total, ns, num_str, n_candidatos) ==
    LET v == ValorPesos(num_str)
    IN  IF ~v.ok THEN [total |-> total, notas |-> ns, lanza |-> FALSE]
        ELSE IF EsPosibleFecha(v.val, n_candidatos)
             THEN [total |-> total, notas |-> <<"POSIBLE_FECHA_IGNORADA">> \o ns, lanza |-> FALSE]
             ELSE [total |-> Suma(total, v.val), notas |-> ns, lanza |-> FALSE]

\* one iteration of the peso loop.
\* lanza: an exception leaves the iteration (never: except Exception: continue)
SumarPesos(total, ns, num_str, n_candidatos) ==
    LET v == ValorPesos(num_str)
    IN  IF ~v.ok THEN [total |-> total, notas |-> ns, lanza |-> FALSE]
        ELSE IF EsPosibleFecha(v.val, n_candidatos)
             THEN [total |-> total, notas |-> Append(ns, "POSIBLE_FECHA_IGNORADA"), lanza |-> FALSE]
             ELSE [total |-> Suma(total, v.val), notas |-> ns, lanza |-> FALSE]

EstaEn(tag, ns) == \E i \in 1..Len(ns) : ns[i] = tag

\* if texto_con_letras: append LIMPIEZA_TEXTO
NotasConLimpiezaSiempre(ns, con_letras) ==
    IF con_letras THEN Append(ns, "LIMPIEZA_TEXTO") ELSE ns
\* if texto_con_letras and "CONVERSION_USD" not in notas: append LIMPIEZA_TEXTO
NotasConLimpieza(ns, con_letras) ==
    IF con_letras /\ ~EstaEn("CONVERSION_USD", ns) THEN Append(ns, "LIMPIEZA_TEXTO") ELSE ns

\* if not notas: append NORMAL
NotasFinales(ns) == IF ns = <<>> THEN <<"NORMAL">> ELSE ns

RECURSIVE BucleUsd(_, _, _, _, _)
BucleUsd(coinc, k, total, t, cot) ==
    IF k > Len(coinc) THEN [total |-> total, texto |-> t]
    ELSE LET r == ConvertirUsd(total, t, coinc[k], cot)
         IN  BucleUsd(coinc, k + 1, r.total, r.texto, cot)

RECURSIVE BuclePesos(_, _, _, _)
BuclePesos(nums, k, total, ns) ==
    IF k > Len(nums) THEN [total |-> total, notas |-> ns]
    ELSE LET r == SumarPesos(total, ns, nums[k], Len(nums))
         IN  BuclePesos(nums, k + 1, r.total, r.notas)

\* the whole function on a cell and a rate: [monto, notas]
Normalizar(valor, cotizacion_blue) ==
    LET cot == CotizacionEfectiva(cotizacion_blue)
        t0 == Canonico(valor)
    IN  IF EsVacio(t0) THEN [monto |-> Cero, notas |-> <<"VACIO">>]
        ELSE LET coinc == FindallUsd(t0)
                 n0 == IF coinc # <<>> THEN <<"CONVERSION_USD">> ELSE <<>>
                 u == BucleUsd(coinc, 1, Cero, t0, cot)
                 nums == FindallNumeros(QuitarMarcas(u.texto, 1), 1)
                 p == BuclePesos(nums, 1, u.total, n0)
             IN  [monto |-> p.total,
                  notas |-> NotasFinales(NotasConLimpieza(p.notas, TieneLetras(u.texto)))]

Texto(s) == [tipo |-> "str", txt |-> s, num |-> Cero]
Flotante(d) == [tipo |-> "float", txt |-> <<>>, num |-> d]

(***************************************************************************)
(* calcular_impuestos.  A tax amount is an integer count of 1/1210 of the  *)
(* unit of the gross amount's mantissa: in that unit the quotients by 1.21 *)
(* and the products by 0.029 and 0.003 are exact.                          *)
(***************************************************************************)
\* x / 1.21
Entre121(x) == (x \div 121) * 100
\* x * 0.029
Por29Milesimos(x) == (x \div 1000) * 29
\* x * 0.003
Por3Milesimos(x) == (x \div 1000) * 3

\* the value in units of 1/1210 of mantissa m of monto_bruto
EnUnidades(m) == 1210 * m

\* row['es_fiscal'] == 1
EsFiscal(es_fiscal) == es_fiscal = 1

\* neto - monto_bruto
IvaInvertido(monto_bruto, neto) == neto - monto_bruto
\* monto_bruto - neto
IvaDe(monto_bruto, neto) == monto_bruto - neto

CalcularImpuestosDe(monto, es_fiscal) ==
    LET monto_bruto == EnUnidades(monto.m)
    IN  IF EsFiscal(es_fiscal)
        THEN LET neto == Entre121(monto_bruto)
             IN  [neto |-> neto, iva |-> IvaDe(monto_bruto, neto),
                  iibb |-> Por29Milesimos(neto), syh |-> Por3Milesimos(neto)]
        ELSE [neto |-> monto_bruto, iva |-> 0, iibb |-> 0, syh |-> 0]

SinImpuestos == [neto |-> 0, iva |-> 0, iibb |-> 0, syh |-> 0]

\* medios_fiscales = ["C", "T", "MP (NEGOCIO)"]
MediosFiscales == {"C", "T", "MP (NEGOCIO)"}
\* 1 if x in medios_fiscales else 0
EsFiscalDe(medio) == IF medio \in MediosFiscales THEN 1 ELSE 0

\* df_melt["monto_ars"] > 0
MontoPositivo(monto) == monto.m > 0

(***************************************************************************)
(* Inputs: the cells, rates and channels the model is run on               *)
(***************************************************************************)
MaxTokens == 3
MaxDigitos == 5
MaxMonto == 60

RECURSIVE Concat(_)
Concat(ts) == IF ts = <<>> THEN <<>> ELSE Head(ts) \o Concat(Tail(ts))

NumDigitos(s) == Cardinality({i \in 1..Len(s) : s[i] \in Digitos})

\* words typed into cells with dollar amounts
PalabrasDolares == {<<"5">>, <<"1", "5">>, <<" ">>, <<"5", "u", "s">>, <<"u", "s", "d">>, <<",">>,
                    <<"d", "o", "l", "a", "r">>}
\* words typed into cells with years
PalabrasFechas == {<<"2", "0", "2", "5">>, <<"2", "0", "2", "0">>, <<"2", "0", "3", "0">>,
                   <<" ">>, <<"5">>, <<".">>, <<"5", "u", "$">>, <<"x">>}
\* words typed into cells with text, and the texts of missing cells
PalabrasTexto == {<<"n", "a", "n">>, <<"N", "o", "n", "e">>, <<" ">>, <<"x">>, <<"n~">>, <<"$">>,
                  <<"5">>, <<"0">>}

Frases(palabras) == UNION {[1..n -> palabras] : n \in 0..MaxTokens}

TextosDe(palabras) == {t \in {Concat(f) : f \in Frases(palabras)} : NumDigitos(t) <= MaxDigitos}

\* numeric cells, which get_all_records() hands over as floats: 5.0, 15.5, 2025.0
CeldasNumericas == {Flotante([m |-> 5, e |-> 0]), Flotante([m |-> 155, e |-> 1]),
                    Flotante([m |-> 2025, e |-> 0])}

Celdas == {Texto(t) : t \in TextosDe(PalabrasDolares) \cup TextosDe(PalabrasFechas) \cup TextosDe(PalabrasTexto)}
          \cup CeldasNumericas

\* the rates of a row: missing after the left merge, zero, negative, positive
Cotizaciones == {NaN, Tasa(0), Tasa(-1), Tasa(3)}

\* one fiscal and one informal channel
Medios == {"C", "M"}

Montos == {Canon([m |-> n, e |-> 2]) : n \in 0..MaxMonto}

(***************************************************************************)
(* State                                                                   *)
(***************************************************************************)
VARIABLES
    valor,              \* row["valor_sucio"]: the raw cell
    cotizacion_blue,    \* row["cotizacion_blue"]
    medio_pago_origen,  \* row["medio_pago_origen"]
    pc,                 \* where the row is in main() / limpiar_celda_dinero_auditado
                        \* ("excepcion": an exception left limpiar_celda_dinero_auditado)
    cotizacion,         \* local of limpiar_celda_dinero_auditado
    texto,              \* local: the working text
    coincidencias_usd,  \* local
    posibles_numeros,   \* local
    k,                  \* position of the running for loop
    texto_con_letras,   \* local
    total_ars,          \* local
    notas,              \* local
    monto_ars,          \* row["monto_ars"]
    notas_auditoria,    \* row["notas_auditoria"]: the tags, in order
    en_fact,            \* the row is in df_fact
    es_fiscal,          \* row["es_fiscal"], -1 before it is set
    impuestos,          \* monto_neto, impuesto_iva, impuesto_iibb, tasa_syh
    fact_ingresos       \* the rows of df_fact[cols_fact] handed to to_sql

vars == <<valor, cotizacion_blue, medio_pago_origen, pc, cotizacion, texto, coincidencias_usd,
          posibles_numeros, k, texto_con_letras, total_ars, notas, monto_ars, notas_auditoria,
          en_fact, es_fiscal, impuestos, fact_ingresos>>

fila == <<valor, cotizacion_blue, medio_pago_origen>>
locales == <<cotizacion, texto, coincidencias_usd, posibles_numeros, k, texto_con_letras,
             total_ars, notas>>
salida == <<monto_ars, notas_auditoria>>
resto == <<en_fact, es_fiscal, impuestos, fact_ingresos>>

LocalesIniciales ==
    /\ cotizacion = 0
    /\ texto = <<>>
    /\ coincidencias_usd = <<>>
    /\ posibles_numeros = <<>>
    /\ k = 0
    /\ texto_con_letras = FALSE
    /\ total_ars = Cero
    /\ notas = <<>>

\* a melted row (main.py df_melt) before limpiar_celda_dinero_auditado is applied
Init ==
    /\ valor \in Celdas
    /\ cotizacion_blue \in Cotizaciones
    /\ medio_pago_origen \in Medios
    /\ pc = "inicio"
    /\ LocalesIniciales
    /\ monto_ars = Cero
    /\ notas_auditoria = <<>>
    /\ en_fact = FALSE
    /\ es_fiscal = -1
    /\ impuestos = SinImpuestos
    /\ fact_ingresos = {}

(***************************************************************************)
(* limpiar_celda_dinero_auditado, step by step                             *)
(***************************************************************************)
\* lines 34-46: read the row, canonicalize, return VACIO for an empty cell
Canonicalizar ==
    /\ pc = "inicio"
    /\ cotizacion' = CotizacionEfectiva(cotizacion_blue)
    /\ texto' = Canonico(valor)
    /\ IF EsVacio(texto')
       THEN /\ monto_ars' = Cero
            /\ notas_auditoria' = <<"VACIO">>
            /\ pc' = "limpia"
       ELSE /\ UNCHANGED salida
            /\ pc' = "usd"
    /\ total_ars' = Cero
    /\ notas' = <<>>
    /\ UNCHANGED <<fila, coincidencias_usd, posibles_numeros, k, texto_con_letras, resto>>

\* lines 49-53: the dollar matches, tagged once
BuscarDolares ==
    /\ pc = "usd"
    /\ coincidencias_usd' = FindallUsd(texto)
    /\ notas' = IF coincidencias_usd' # <<>> THEN Append(notas, "CONVERSION_USD") ELSE notas
    /\ k' = 1
    /\ pc' = "bucle_usd"
    /\ UNCHANGED <<fila, cotizacion, texto, posibles_numeros, texto_con_letras, total_ars, salida, resto>>

\* lines 55-62: one iteration of the dollar loop
ConvertirDolar ==
    /\ pc = "bucle_usd"
    /\ k <= Len(coincidencias_usd)
    /\ LET r == ConvertirUsd(total_ars, texto, coincidencias_usd[k], cotizacion)
       IN  /\ total_ars' = r.total
           /\ texto' = r.texto
           /\ pc' = IF r.lanza THEN "excepcion" ELSE pc
    /\ k' = k + 1
    /\ UNCHANGED <<fila, cotizacion, coincidencias_usd, posibles_numeros, texto_con_letras,
                   notas, salida, resto>>

\* lines 65-68: letters seen, markers stripped, candidates found
ExtraerPesos ==
    /\ pc = "bucle_usd"
    /\ k > Len(coincidencias_usd)
    /\ texto_con_letras' = TieneLetras(texto)
    /\ posibles_numeros' = FindallNumeros(QuitarMarcas(texto, 1), 1)
    /\ k' = 1
    /\ pc' = "bucle_pesos"
    /\ UNCHANGED <<fila, cotizacion, texto, coincidencias_usd, total_ars, notas, salida, resto>>

\* lines 70-85: one iteration of the peso loop
SumarCandidato ==
    /\ pc = "bucle_pesos"
    /\ k <= Len(posibles_numeros)
    /\ LET r == SumarPesos(total_ars, notas, posibles_numeros[k], Len(posibles_numeros))
       IN  /\ total_ars' = r.total
           /\ notas' = r.notas
           /\ pc' = IF r.lanza THEN "excepcion" ELSE pc
    /\ k' = k + 1
    /\ UNCHANGED <<fila, cotizacion, texto, coincidencias_usd, posibles_numeros,
                   texto_con_letras, salida, resto>>

\* lines 87-93: LIMPIEZA_TEXTO, NORMAL, return
Etiquetar ==
    /\ pc = "bucle_pesos"
    /\ k > Len(posibles_numeros)
    /\ notas' = NotasFinales(NotasConLimpieza(notas, texto_con_letras))
    /\ monto_ars' = total_ars
    /\ notas_auditoria' = notas'
    /\ pc' = "limpia"
    /\ UNCHANGED <<fila, cotizacion, texto, coincidencias_usd, posibles_numeros, k,
                   texto_con_letras, total_ars, resto>>

(***************************************************************************)
(* main(): from the cleaned row to the loader.  The columns monto_usd and  *)
(* monto_neto_usd and the rounding to 4 decimals are not part of the       *)
(* model's row.                                                            *)
(***************************************************************************)
\* main.py line 138: df_fact = df_melt[df_melt["monto_ars"] > 0]
Filtrar ==
    /\ pc = "limpia"
    /\ en_fact' = MontoPositivo(monto_ars)
    /\ pc' = "filtrada"
    /\ UNCHANGED <<fila, locales, salida, es_fiscal, impuestos, fact_ingresos>>

\* main.py lines 149-153
ClasificarFiscal ==
    /\ pc = "filtrada"
    /\ en_fact
    /\ es_fiscal' = EsFiscalDe(medio_pago_origen)
    /\ pc' = "fiscal"
    /\ UNCHANGED <<fila, locales, salida, en_fact, impuestos, fact_ingresos>>

\* main.py lines 155-157: calcular_impuestos applied to the row
CalcularImpuestos ==
    /\ pc = "fiscal"
    /\ impuestos' = CalcularImpuestosDe(monto_ars, es_fiscal)
    /\ pc' = "impuestos"
    /\ UNCHANGED <<fila, locales, salida, en_fact, es_fiscal, fact_ingresos>>

FilaFact == [medio_pago_origen |-> medio_pago_origen, monto_ars |-> monto_ars,
             es_fiscal |-> es_fiscal, impuestos |-> impuestos,
             notas_auditoria |-> notas_auditoria]

\* main.py lines 199-204, loading.py lines 45-59: df_fact[cols_fact] goes to to_sql
Cargar ==
    /\ \/ pc = "impuestos"
       \/ pc = "filtrada" /\ ~en_fact
    /\ fact_ingresos' = IF en_fact THEN {FilaFact} ELSE {}
    /\ pc' = "cargada"
    /\ UNCHANGED <<fila, locales, salida, en_fact, es_fiscal, impuestos>>

Next ==
    \/ Canonicalizar
    \/ BuscarDolares
    \/ ConvertirDolar
    \/ ExtraerPesos
    \/ SumarCandidato
    \/ Etiquetar
    \/ Filtrar
    \/ ClasificarFiscal
    \/ CalcularImpuestos
    \/ Cargar

Spec == Init /\ [][Next]_vars

(***************************************************************************)
(* calcular_impuestos on its own: every amount of Montos, both flags       *)
(***************************************************************************)
InitImpuestos ==
    /\ valor = Texto(<<>>)
    /\ cotizacion_blue = NaN
    /\ medio_pago_origen \in Medios
    /\ pc = "fiscal"
    /\ LocalesIniciales
    /\ monto_ars \in Montos
    /\ notas_auditoria = <<"NORMAL">>
    /\ en_fact = TRUE
    /\ es_fiscal = EsFiscalDe(medio_pago_origen)
    /\ impuestos = SinImpuestos
    /\ fact_ingresos = {}

NextImpuestos == CalcularImpuestos

SpecImpuestos == InitImpuestos /\ [][NextImpuestos]_vars

(***************************************************************************)
(* Properties                                                              *)
(***************************************************************************)
\* limpiar_celda_dinero_auditado has returned
Devuelto == pc \in {"limpia", "filtrada", "fiscal", "impuestos", "cargada"}
\* the function returned on the empty-cell path
DevueltoVacio == Devuelto /\ notas_auditoria = <<"VACIO">>
\* the function returned after a full parse
DevueltoParse == Devuelto /\ notas_auditoria # <<"VACIO">>

Etiquetas == {"VACIO", "CONVERSION_USD", "POSIBLE_FECHA_IGNORADA", "LIMPIEZA_TEXTO", "NORMAL"}

RECURSIVE SumaDe(_)
SumaDe(ds) == IF ds = <<>> THEN Cero ELSE Suma(Head(ds), SumaDe(Tail(ds)))

\* the value of a dollar numeral, comma or dot as the decimal separator
ValorNumeralUsd(monto_str) == ParseFloat(ReplaceChar(monto_str, ",", ".")).val

\* C1: no exception leaves the normalizer (a value that float() rejects
\* included), and the returned trail is never
\* empty, holds only known tags, and holds NORMAL exactly when it holds no
\* other tag.
C1_SiempreDevuelveConTraza ==
    /\ pc # "excepcion"
    /\ Devuelto =>
         /\ notas_auditoria # <<>>
         /\ \A i \in 1..Len(notas_auditoria) : notas_auditoria[i] \in Etiquetas
         /\ EstaEn("NORMAL", notas_auditoria)
              <=> (\A i \in 1..Len(notas_auditoria) : notas_auditoria[i] = "NORMAL")

\* a candidate that float() rejects with ValueError was met and the parse
\* returned NORMAL
C1_Witness ==
    /\ Devuelto
    /\ notas_auditoria = <<"NORMAL">>
    /\ \E i \in 1..Len(posibles_numeros) :
         /\ NClean(posibles_numeros[i]) \notin {<<>>, <<".">>, <<",">>}
         /\ ~ParseFloat(NClean(posibles_numeros[i])).ok

\* every dollar numeral of the parse contributed nothing
SinAporteUsd == \A i \in 1..Len(coincidencias_usd) :
                    \/ ValorNumeralUsd(coincidencias_usd[i]) = Cero
                    \/ CotizacionEfectiva(cotizacion_blue) <= 0
\* every peso candidate of the parse contributed nothing
SinAportePesos == \A i \in 1..Len(posibles_numeros) :
                      LET v == ValorPesos(posibles_numeros[i])
                      IN  \/ ~v.ok
                          \/ v.val = Cero
                          \/ (EntreEstricto(v.val, 2020, 2030) /\ Len(posibles_numeros) = 1)

\* C2 as stated: a returned amount of 0 means the trail is VACIO or the
\* numbers of the cell were suppressed as a date.
C2_CeroSoloVacioOFecha ==
    (Devuelto /\ monto_ars = Cero) =>
        \/ notas_auditoria = <<"VACIO">>
        \/ EstaEn("POSIBLE_FECHA_IGNORADA", notas_auditoria)

\* C2 amended: the returned amount is never negative, and after a full parse
\* it is 0 exactly when no number of the cell contributed: every dollar
\* numeral is zero or met a rate that is not positive, and every peso
\* candidate was unparseable, zero, or suppressed as a date (a cell with no
\* number at all included).
C2_CeroSiiSinAportes ==
    Devuelto =>
        /\ monto_ars.m >= 0
        /\ DevueltoVacio => monto_ars = Cero
        /\ DevueltoParse => (monto_ars = Cero <=> (SinAporteUsd /\ SinAportePesos))

\* a dollar amount met a negative rate and the amount returned is 0
C2_Witness ==
    /\ DevueltoParse
    /\ monto_ars = Cero
    /\ coincidencias_usd # <<>>
    /\ ValorNumeralUsd(coincidencias_usd[1]) # Cero
    /\ ~cotizacion_blue.nan
    /\ cotizacion_blue.v < 0

\* the canonical text the parse started from
TextoOriginal == Canonico(valor)

\* s without the numeral of each match of ms, each taken out at its own place
RECURSIVE QuitarTramos(_, _)
QuitarTramos(s, ms) ==
    IF ms = <<>> THEN s
    ELSE LET m == ms[Len(ms)]
         IN  QuitarTramos(SubSeq(s, 1, m.ini - 1) \o SubSeq(s, m.fin_num, Len(s)),
                          SubSeq(ms, 1, Len(ms) - 1))

\* the original text without the numerals that were matched as dollars
TextoSinDolares == QuitarTramos(TextoOriginal, BuscarUsd(TextoOriginal, 1))

\* what the peso pass adds on text t
PesosDe(t) == BuclePesos(FindallNumeros(QuitarMarcas(t, 1), 1), 1, Cero, <<>>).total

\* numeral * rate for every dollar match, nothing when the rate is not positive
AporteUsd ==
    LET cot == CotizacionEfectiva(cotizacion_blue)
    IN  SumaDe([i \in 1..Len(coincidencias_usd) |->
                  IF cot > 0 THEN PorEntero(ValorNumeralUsd(coincidencias_usd[i]), cot) ELSE Cero])

\* C3 as stated: no double counting.  The amount is numeral * rate for every
\* dollar match plus what the peso pass adds on the text without the matched
\* numerals, the other numerals unchanged.
C3_SinDobleConteo ==
    DevueltoParse => monto_ars = Suma(AporteUsd, PesosDe(TextoSinDolares))

\* C4 as stated: with a missing or non-positive rate the dollar matches add
\* nothing, no exception leaves the function, CONVERSION_USD is tagged, and
\* the matched numerals are not added as pesos either.
C4_SinTasaNoSuma ==
    /\ pc # "excepcion"
    /\ (DevueltoParse /\ coincidencias_usd # <<>> /\ CotizacionEfectiva(cotizacion_blue) <= 0) =>
           /\ EstaEn("CONVERSION_USD", notas_auditoria)
           /\ monto_ars = PesosDe(TextoSinDolares)

\* the peso candidates that parse as numbers
Numericos == {i \in 1..Len(posibles_numeros) : ValorPesos(posibles_numeros[i]).ok}
\* the values of the peso candidates, zero for one that is skipped
ValoresPesos == [i \in 1..Len(posibles_numeros) |-> ValorPesos(posibles_numeros[i]).val]
\* the peso candidates with a value strictly between 2020 and 2030
EnRangoDeFecha == {i \in Numericos : EntreEstricto(ValorPesos(posibles_numeros[i]).val, 2020, 2030)}

\* C5 as stated: a candidate is suppressed exactly when its value is strictly
\* between 2020 and 2030 and it is the only candidate that parses as a number
\* (skipped candidates not counted); every other numeric candidate is added.
C5_FechaSoloEntreNumericos ==
    DevueltoParse =>
        LET suprimida == EnRangoDeFecha # {} /\ Cardinality(Numericos) = 1
        IN  /\ EstaEn("POSIBLE_FECHA_IGNORADA", notas_auditoria) <=> suprimida
            /\ monto_ars = Suma(AporteUsd, IF suprimida THEN Cero ELSE SumaDe(ValoresPesos))

\* C5 amended: a candidate is suppressed exactly when its value is strictly
\* between 2020 and 2030 and it is the only candidate of the peso pass, where
\* every run of digits, dots and commas counts as a candidate, the ones that
\* are skipped as punctuation-only or unparseable included; every other
\* numeric candidate is added to the total.
C5_FechaSoloEntreCandidatos ==
    DevueltoParse =>
        LET suprimida == EnRangoDeFecha # {} /\ Len(posibles_numeros) = 1
        IN  /\ EstaEn("POSIBLE_FECHA_IGNORADA", notas_auditoria) <=> suprimida
            /\ monto_ars = Suma(AporteUsd, IF suprimida THEN Cero ELSE SumaDe(ValoresPesos))

\* a year beside a punctuation-only candidate was added to the total
C5_Witness ==
    /\ DevueltoParse
    /\ Len(posibles_numeros) = 2
    /\ Cardinality(Numericos) = 1
    /\ EnRangoDeFecha # {}
    /\ ~EstaEn("POSIBLE_FECHA_IGNORADA", notas_auditoria)
    /\ monto_ars = SumaDe(ValoresPesos)

\* C6 as stated: round trip on the plain-number path.  The returned amount,
\* put back in a cell as the number it is (str() formats it, no currency
\* marker) and normalized again at the same rate, comes back unchanged.
C6_IdaYVuelta ==
    Devuelto => Normalizar(Flotante(monto_ars), cotizacion_blue).monto = monto_ars

\* the tags that report a malformed cell
TieneAnomalia(ns) ==
    \/ EstaEn("POSIBLE_FECHA_IGNORADA", ns)
    \/ EstaEn("LIMPIEZA_TEXTO", ns)
    \/ EstaEn("CONVERSION_USD", ns) /\ CotizacionEfectiva(cotizacion_blue) <= 0

\* C7 as stated: when the fact table is handed to the loader, every row whose
\* cell was tagged with an anomaly is in it, with its tags in notas_auditoria.
C7_FilaAnomalaLlegaAFact ==
    (pc = "cargada" /\ TieneAnomalia(notas_auditoria)) =>
        \E f \in fact_ingresos : f.notas_auditoria = notas_auditoria

\* C8: with es_fiscal = 1, net = gross / 1.21, vat = gross - net, so that
\* net + vat = gross, and the levies are 2.9% and 0.3% of net; otherwise the
\* result is (gross, 0, 0, 0).
C8_DescomposicionFiscal ==
    pc = "impuestos" =>
        LET a == EnUnidades(monto_ars.m)
        IN  IF es_fiscal = 1
            THEN /\ impuestos.neto * 121 = a * 100
                 /\ impuestos.iva = a - impuestos.neto
                 /\ impuestos.neto + impuestos.iva = a
                 /\ impuestos.iibb * 1000 = impuestos.neto * 29
                 /\ impuestos.syh * 1000 = impuestos.neto * 3
            ELSE impuestos = [neto |-> a, iva |-> 0, iibb |-> 0, syh |-> 0]

\* a positive amount of a fiscal channel was decomposed
C8_Witness ==
    /\ pc = "impuestos"
    /\ es_fiscal = 1
    /\ monto_ars.m > 0
    /\ impuestos.iva > 0
    /\ impuestos.iibb > 0

\* the text of a cell is empty, "nan" or "none" once lower-cased and trimmed
CeldaVacia ==
    /\ valor.tipo = "str"
    /\ LET t == Strip(LowerStr(valor.txt))
       IN  t = <<>> \/ t = <<"n", "a", "n">> \/ t = <<"n", "o", "n", "e">>

\* C9: for every rate, a cell that is empty, "nan" or "none" after
\* lower-casing and trimming yields amount 0 and the trail VACIO alone, and
\* nothing else of the parse runs.
C9_VacioDirecto ==
    (CeldaVacia /\ pc # "inicio") =>
        /\ Devuelto
        /\ monto_ars = Cero
        /\ notas_auditoria = <<"VACIO">>
        /\ coincidencias_usd = <<>>
        /\ posibles_numeros = <<>>
        /\ total_ars = Cero
        /\ notas = <<>>

\* a cell that needed lower-casing and trimming returned VACIO with no rate
C9_Witness ==
    /\ Devuelto
    /\ notas_auditoria = <<"VACIO">>
    /\ cotizacion_blue.nan
    /\ valor.txt # Strip(valor.txt)
    /\ valor.txt # LowerStr(valor.txt)

\* C10 as stated: LIMPIEZA_TEXTO is tagged exactly when an alphabetic
\* character is left in the working text after the dollar numerals were
\* removed and CONVERSION_USD was not tagged.
C10_LimpiezaSiiAlfabetico ==
    DevueltoParse =>
        (EstaEn("LIMPIEZA_TEXTO", notas_auditoria)
           <=> /\ \E i \in 1..Len(texto) : texto[i] \in LetrasAscii \cup LetrasNoAscii
               /\ ~EstaEn("CONVERSION_USD", notas_auditoria))

\* C10 amended: LIMPIEZA_TEXTO is tagged exactly when a letter of a-z (the
\* text is lower-cased) is left in the working text after the dollar numerals
\* were removed and CONVERSION_USD was not tagged; a letter outside a-z, such
\* as n with tilde, does not count.  LIMPIEZA_TEXTO and CONVERSION_USD never share a
\* trail.
C10_LimpiezaSiiLetraAscii ==
    DevueltoParse =>
        /\ EstaEn("LIMPIEZA_TEXTO", notas_auditoria)
             <=> /\ \E i \in 1..Len(texto) : texto[i] \in LetrasAscii
                 /\ coincidencias_usd = <<>>
        /\ ~(EstaEn("LIMPIEZA_TEXTO", notas_auditoria) /\ EstaEn("CONVERSION_USD", notas_auditoria))
        /\ EstaEn("CONVERSION_USD", notas_auditoria) <=> coincidencias_usd # <<>>

\* a cell with a word and a number, no dollar match: 5 and LIMPIEZA_TEXTO
C10_Witness ==
    /\ DevueltoParse
    /\ notas_auditoria = <<"LIMPIEZA_TEXTO">>
    /\ coincidencias_usd = <<>>
    /\ monto_ars = Entero(5)
    /\ cotizacion_blue = Tasa(3)

\* ---- C11: shape of the audit trail ----
Veces(tag, ns) == Cardinality({i \in 1..Len(ns) : ns[i] = tag})

\* every occurrence of tag a lies before every occurrence of tag b
Precede(a, b, ns) ==
    \A i, j \in 1..Len(ns) : (ns[i] = a /\ ns[j] = b) => i < j

\* C11: in every returned trail each tag appears at most once (CONVERSION_USD once
\* whatever the number of dollar matches), CONVERSION_USD precedes
\* POSIBLE_FECHA_IGNORADA and LIMPIEZA_TEXTO, POSIBLE_FECHA_IGNORADA precedes
\* LIMPIEZA_TEXTO, and the trail is the one the function of (valor, cotizacion_blue) gives
C11_TrazaUnicaYOrdenada ==
    Devuelto =>
        /\ \A tag \in Etiquetas : Veces(tag, notas_auditoria) <= 1
        /\ coincidencias_usd # <<>> => Veces("CONVERSION_USD", notas_auditoria) = 1
        /\ Precede("CONVERSION_USD", "POSIBLE_FECHA_IGNORADA", notas_auditoria)
        /\ Precede("CONVERSION_USD", "LIMPIEZA_TEXTO", notas_auditoria)
        /\ Precede("POSIBLE_FECHA_IGNORADA", "LIMPIEZA_TEXTO", notas_auditoria)
        /\ notas_auditoria = Normalizar(valor, cotizacion_blue).notas

\* a cell with a dollar amount and a lone year: both tags, the dollar tag first
C11_Witness ==
    /\ DevueltoParse
    /\ coincidencias_usd # <<>>
    /\ notas_auditoria = <<"CONVERSION_USD", "POSIBLE_FECHA_IGNORADA">>

====
